---- MODULE Spec2Model ----
(***************************************************************************)
(* utils/portfolioPipeline.js: createPortfolioPipeline builds the          *)
(* aggregation pipeline of the portfolio listing, createPaginationMetadata *)
(* the page metadata.  The pipeline is a sequence of stage records; the    *)
(* stages are given the semantics of the aggregation engine that runs      *)
(* them, so that statements about the records the pipeline produces can be *)
(* checked.  A document is a function from field names to values; a field  *)
(* that is absent is not in the document's DOMAIN.                         *)
(***************************************************************************)
EXTENDS Integers, Sequences, FiniteSets, TLC

VARIABLES portfolios, likes, techstacks, jobgroups,
          matchStage, options, pipeline, docs, phase,
          totalCount, page, limit, metadata

vars == <<portfolios, likes, techstacks, jobgroups, matchStage, options,
          pipeline, docs, phase, totalCount, page, limit, metadata>>

(* ------------------------------ bounds -------------------------------- *)
MaxPortfolios == 2
MaxSkills == 2
MaxLikes == 2
MaxDefs == 2
MaxTime == 2
MaxSkip == 1
MaxLimit == 2
MaxTotal == 4
MaxPage == 3

(* ----------------------------- documents ------------------------------ *)
NoDoc == [f \in {} |-> f]

Has(d, f) == f \in DOMAIN d

Without(d, f) == [g \in DOMAIN d \ {f} |-> d[g]]

With(d, f, v) == (f :> v) @@ Without(d, f)

Null == "null"

SeqsUpTo(S, n) == UNION {[1..k -> S] : k \in 0..n}

RECURSIVE Flatten(_)
Flatten(ss) == IF ss = <<>> THEN <<>> ELSE Head(ss) \o Flatten(Tail(ss))

Perms(n) == {p \in [1..n -> 1..n] : \A i, j \in 1..n : p[i] = p[j] => i = j}

Reorderings(s) == {[i \in 1..Len(s) |-> s[p[i]]] : p \in Perms(Len(s))}

(* --------------------- createPortfolioPipeline ------------------------ *)
DefaultLimit == 15

ScalarFields == {"title", "contents", "view", "images", "tags", "createdAt",
                 "thumbnailImage", "userID"}

TechFields == {"skill", "bgColor", "textColor", "jobCode"}

MatchStage(ms) == [op |-> "$match", query |-> ms]

\* the join keyed on the Like's own identifier
LikesLookup_ByLikeId ==
  [op |-> "$lookup", from |-> "likes", localField |-> "_id",
   foreignField |-> "_id", as |-> "likes"]

LikesLookup ==
  [op |-> "$lookup", from |-> "likes", localField |-> "_id",
   foreignField |-> "portfolioID", as |-> "likes"]

LikeCountStage == [op |-> "$addFields", field |-> "likeCount", size |-> "likes"]

\* the expansion without preserveNullAndEmptyArrays
TechStackUnwind_Inner ==
  [op |-> "$unwind", path |-> "techStack", preserveNullAndEmptyArrays |-> FALSE]

TechStackUnwind ==
  [op |-> "$unwind", path |-> "techStack", preserveNullAndEmptyArrays |-> TRUE]

TechStackLookup ==
  [op |-> "$lookup", from |-> "techstacks", letField |-> "techStack",
   eqField |-> "skill", as |-> "techStackInfo"]

\* the resolution expansion without preserveNullAndEmptyArrays
TechStackInfoUnwind_Inner ==
  [op |-> "$unwind", path |-> "techStackInfo",
   preserveNullAndEmptyArrays |-> FALSE]

TechStackInfoUnwind ==
  [op |-> "$unwind", path |-> "techStackInfo",
   preserveNullAndEmptyArrays |-> TRUE]

\* the group that pushes entries without jobCode
GroupStage_NoJobCode ==
  [op |-> "$group", id |-> "_id",
   first |-> ScalarFields \cup {"likeCount", "jobGroup"},
   push |-> "techStack", pushFrom |-> "techStackInfo",
   pushFields |-> TechFields \ {"jobCode"}]

GroupStage ==
  [op |-> "$group", id |-> "_id",
   first |-> ScalarFields \cup {"likeCount", "jobGroup"},
   push |-> "techStack", pushFrom |-> "techStackInfo", pushFields |-> TechFields]

JobGroupLookup ==
  [op |-> "$lookup", from |-> "jobgroups", letField |-> "jobGroup",
   eqField |-> "_id", project |-> {"job"}, as |-> "jobGroupInfo"]

\* the job-group expansion without preserveNullAndEmptyArrays
JobGroupUnwind_Inner ==
  [op |-> "$unwind", path |-> "jobGroupInfo",
   preserveNullAndEmptyArrays |-> FALSE]

JobGroupUnwind ==
  [op |-> "$unwind", path |-> "jobGroupInfo",
   preserveNullAndEmptyArrays |-> TRUE]

ProjectStage ==
  [op |-> "$project",
   include |-> {"_id", "techStack", "likeCount"} \cup ScalarFields,
   field |-> "jobGroup", from |-> "jobGroupInfo", sub |-> "job"]

\* the "popular" sort with its keys exchanged
SortStage_CreatedFirst(sort) ==
  IF sort = "popular"
    THEN [op |-> "$sort", keys |-> <<"createdAt", "likeCount">>]
    ELSE [op |-> "$sort", keys |-> <<"createdAt">>]

SortStage(sort) ==
  IF sort = "popular"
    THEN [op |-> "$sort", keys |-> <<"likeCount", "createdAt">>]
    ELSE [op |-> "$sort", keys |-> <<"createdAt">>]

\* the skip stage appended for skip >= 0
SkipStage_NonNegative(skip) ==
  IF skip >= 0 THEN <<[op |-> "$skip", n |-> skip]>> ELSE <<>>

SkipStage(skip) == IF skip > 0 THEN <<[op |-> "$skip", n |-> skip]>> ELSE <<>>

LimitStage(lim) == IF lim > 0 THEN <<[op |-> "$limit", n |-> lim]>> ELSE <<>>

OptSort(opt) == IF Has(opt, "sort") THEN opt.sort ELSE "latest"

OptSkip(opt) == IF Has(opt, "skip") THEN opt.skip ELSE 0

OptLimit(opt) == IF Has(opt, "limit") THEN opt.limit ELSE DefaultLimit

\* the likes join and likeCount placed after the tech-stack expansion
FixedStages_LikesAfterUnwind(ms) ==
  <<MatchStage(ms), TechStackUnwind, LikesLookup, LikeCountStage,
    TechStackLookup, TechStackInfoUnwind, GroupStage, JobGroupLookup,
    JobGroupUnwind, ProjectStage>>

FixedStages(ms) ==
  <<MatchStage(ms), LikesLookup, LikeCountStage, TechStackUnwind,
    TechStackLookup, TechStackInfoUnwind, GroupStage, JobGroupLookup,
    JobGroupUnwind, ProjectStage>>

createPortfolioPipeline(ms, opt) ==
  FixedStages(ms) \o <<SortStage(OptSort(opt))>>
    \o SkipStage(OptSkip(opt)) \o LimitStage(OptLimit(opt))

(* -------------------- createPaginationMetadata ------------------------ *)
\* Math.floor in place of Math.ceil
Ceil_Floor(a, b) == a \div b

Ceil(a, b) == IF a % b = 0 THEN a \div b ELSE (a \div b) + 1

\* hasNextPage with <= in place of <
createPaginationMetadata_Inclusive(tc, pg, lim) ==
  LET totalPages == Ceil(tc, lim)
  IN  [currentPage |-> pg,
       totalPages  |-> totalPages,
       totalCount  |-> tc,
       hasNextPage |-> pg <= totalPages,
       hasPrevPage |-> pg > 1,
       limit       |-> lim]

createPaginationMetadata(tc, pg, lim) ==
  LET totalPages == Ceil(tc, lim)
  IN  [currentPage |-> pg,
       totalPages  |-> totalPages,
       totalCount  |-> tc,
       hasNextPage |-> pg < totalPages,
       hasPrevPage |-> pg > 1,
       limit       |-> lim]

(* ------------------- the stages, as the engine runs them --------------- *)
Collection(name) ==
  CASE name = "likes" -> likes
    [] name = "techstacks" -> techstacks
    [] name = "jobgroups" -> jobgroups

Restrict(d, fields) == [f \in DOMAIN d \cap fields |-> d[f]]

Matches(d, query) == \A f \in DOMAIN query : Has(d, f) /\ d[f] = query[f]

ExecMatch(st, ds) == SelectSeq(ds, LAMBDA d : Matches(d, st.query))

Joined(st, d) ==
  IF Has(st, "localField")
    THEN SelectSeq(Collection(st.from),
                   LAMBDA x : /\ Has(d, st.localField)
                              /\ Has(x, st.foreignField)
                              /\ x[st.foreignField] = d[st.localField])
    ELSE LET found == SelectSeq(Collection(st.from),
                                LAMBDA x : /\ Has(d, st.letField)
                                           /\ Has(x, st.eqField)
                                           /\ x[st.eqField] = d[st.letField])
         IN  IF Has(st, "project")
               THEN [i \in 1..Len(found) |-> Restrict(found[i], st.project)]
               ELSE found

ExecLookup(st, ds) == [i \in 1..Len(ds) |-> With(ds[i], st.as, Joined(st, ds[i]))]

ExecAddFields(st, ds) ==
  [i \in 1..Len(ds) |-> With(ds[i], st.field, Len(ds[i][st.size]))]

UnwindDoc(st, d) ==
  IF ~Has(d, st.path) \/ Len(d[st.path]) = 0
    THEN IF st.preserveNullAndEmptyArrays THEN <<Without(d, st.path)>> ELSE <<>>
    ELSE [k \in 1..Len(d[st.path]) |-> With(d, st.path, d[st.path][k])]

ExecUnwind(st, ds) == Flatten([i \in 1..Len(ds) |-> UnwindDoc(st, ds[i])])

FirstOf(rows, f) == IF Has(rows[1], f) THEN rows[1][f] ELSE Null

Pushed(st, row) ==
  IF Has(row, st.pushFrom) THEN Restrict(row[st.pushFrom], st.pushFields)
                           ELSE NoDoc

GroupDoc(st, rows) ==
  [f \in {"_id", st.push} \cup st.first |->
     IF f = "_id" THEN rows[1][st.id]
     ELSE IF f = st.push THEN [k \in 1..Len(rows) |-> Pushed(st, rows[k])]
     ELSE FirstOf(rows, f)]

Groups(st, ds) ==
  LET firsts == SelectSeq([i \in 1..Len(ds) |-> i],
                          LAMBDA i : \A j \in 1..(i - 1) : ds[j][st.id] # ds[i][st.id])
  IN  [k \in 1..Len(firsts) |->
         GroupDoc(st, SelectSeq(ds, LAMBDA d : d[st.id] = ds[firsts[k]][st.id]))]

ExecGroup(st, ds) == Reorderings(Groups(st, ds))

ProjectDoc(st, d) ==
  LET kept == Restrict(d, st.include \ {st.field})
  IN  IF Has(d, st.from) /\ Has(d[st.from], st.sub)
        THEN With(kept, st.field, d[st.from][st.sub])
        ELSE kept

ExecProject(st, ds) == [i \in 1..Len(ds) |-> ProjectDoc(st, ds[i])]

RECURSIVE Precedes(_, _, _)
Precedes(a, b, keys) ==
  /\ keys # <<>>
  /\ \/ a[Head(keys)] > b[Head(keys)]
     \/ a[Head(keys)] = b[Head(keys)] /\ Precedes(a, b, Tail(keys))

Sorted(s, keys) ==
  \A i, j \in 1..Len(s) : i < j => ~Precedes(s[j], s[i], keys)

ExecSort(st, ds) == {s \in Reorderings(ds) : Sorted(s, st.keys)}

ExecSkip(st, ds) == SubSeq(ds, st.n + 1, Len(ds))

ExecLimit(st, ds) == SubSeq(ds, 1, IF st.n < Len(ds) THEN st.n ELSE Len(ds))

StageOutcomes(st, ds) ==
  CASE st.op = "$match" -> {ExecMatch(st, ds)}
    [] st.op = "$lookup" -> {ExecLookup(st, ds)}
    [] st.op = "$addFields" -> {ExecAddFields(st, ds)}
    [] st.op = "$unwind" -> {ExecUnwind(st, ds)}
    [] st.op = "$group" -> ExecGroup(st, ds)
    [] st.op = "$project" -> {ExecProject(st, ds)}
    [] st.op = "$sort" -> ExecSort(st, ds)
    [] st.op = "$skip" -> {ExecSkip(st, ds)}
    [] st.op = "$limit" -> {ExecLimit(st, ds)}

RECURSIVE Outcomes(_, _)
Outcomes(stages, ds) ==
  IF stages = <<>> THEN {ds}
  ELSE UNION {Outcomes(Tail(stages), r) : r \in StageOutcomes(Head(stages), ds)}

(* ----------------------------- collections ----------------------------- *)
Skills == {"go", "rust"}

JobGroupRefs == {1, 2}

UserOf(i) == IF i % 2 = 1 THEN "u1" ELSE "u2"

Portfolio(i, stack, t, jg) ==
  [_id |-> i, title |-> <<"title", i>>, contents |-> <<"contents", i>>,
   view |-> 10 * i, images |-> <<<<"image", i>>>>, tags |-> <<<<"tag", i>>>>,
   techStack |-> stack, createdAt |-> t, thumbnailImage |-> <<"thumb", i>>,
   userID |-> UserOf(i), jobGroup |-> jg]

\* k definitions of "go" (each with its own colours), none of "rust"
TechStacks(k) ==
  [j \in 1..k |-> [_id |-> j, skill |-> "go", bgColor |-> <<"bg", j>>,
                   textColor |-> <<"text", j>>, jobCode |-> <<"code", j>>]]

\* job group 1 is defined, job group 2 is not
JobGroups == <<[_id |-> 1, job |-> "Frontend", jobCode |-> "FE"]>>

\* lc[i] Like records for portfolio i
Likes(lc) ==
  LET refs == Flatten([i \in 1..Len(lc) |-> [k \in 1..lc[i] |-> i]])
  IN  [k \in 1..Len(refs) |-> [_id |-> k, portfolioID |-> refs[k]]]

MatchStages == {NoDoc, [userID |-> "u1"]}

(* ------------------------------- state --------------------------------- *)
NoMetadata == NoDoc

RECURSIVE Sum(_)
Sum(ns) == IF ns = <<>> THEN 0 ELSE Head(ns) + Sum(Tail(ns))

\* the collections: n portfolios with at most MaxSkills skill references and
\* at most MaxLikes Like records in all, k definitions of "go"
Inputs(Sizes, Stacks, Times, Refs, LikeCounts, Defs, Queries, Opts, Pagings) ==
  /\ \E n \in Sizes :
       \E st \in [1..n -> Stacks], t \in [1..n -> Times],
          jg \in [1..n -> Refs], lc \in [1..n -> LikeCounts] :
         /\ Sum([i \in 1..n |-> Len(st[i])]) <= MaxSkills
         /\ Sum(lc) <= MaxLikes
         /\ portfolios = [i \in 1..n |-> Portfolio(i, st[i], t[i], jg[i])]
         /\ likes = Likes(lc)
  /\ \E k \in Defs : techstacks = TechStacks(k)
  /\ jobgroups = JobGroups
  /\ matchStage \in Queries
  /\ \E pg \in Pagings :
       /\ totalCount = pg[1]
       /\ page = pg[2]
       /\ limit = pg[3]
  /\ options \in Opts
  /\ pipeline = <<>>
  /\ docs = <<>>
  /\ phase = "start"
  /\ metadata = NoMetadata

\* tech-stack and like joins: every skill sequence, like count and number
\* of definitions of "go"
Init ==
  Inputs(1..MaxPortfolios, SeqsUpTo(Skills, MaxSkills), {1}, {1},
         0..MaxLikes, 1..MaxDefs, MatchStages,
         {NoDoc, [sort |-> "popular", skip |-> 0, limit |-> 0]},
         {<<MaxTotal, 1, DefaultLimit>>})

\* one record per portfolio: resolved and unresolved job groups, no window
InitRows ==
  Inputs(0..MaxPortfolios, SeqsUpTo(Skills, 1), {1}, JobGroupRefs,
         0..1, {1}, MatchStages,
         {[skip |-> 0, limit |-> 0], [sort |-> "popular", limit |-> -1]},
         {<<MaxTotal, 1, DefaultLimit>>})

\* ordering and windows: every like count, creation time, skip and limit
InitSort ==
  Inputs(0..MaxPortfolios, {<<>>}, 1..MaxTime, {1},
         0..MaxLikes, {1}, {NoDoc},
         {[sort |-> so, skip |-> sk, limit |-> li] :
            so \in {"popular", "latest"}, sk \in 0..MaxSkip, li \in 0..MaxLimit},
         {<<MaxTotal, 1, DefaultLimit>>})

\* every shape of options: each field omitted, non-positive or positive
OptionValues ==
  {Restrict([sort |-> so, skip |-> sk, limit |-> li], fields) :
     so \in {"popular", "latest", "oldest"}, sk \in -1..MaxSkip,
     li \in -1..MaxLimit, fields \in SUBSET {"sort", "skip", "limit"}}

InitBuild ==
  Inputs({1}, {<<"go">>}, {1}, {1}, {1}, {1}, MatchStages, OptionValues,
         {<<MaxTotal, 1, DefaultLimit>>})

\* page metadata: every count, page and page size, and the spec's examples;
\* the listing is queried with the window of that page
Pagings ==
  {<<tc, pg, lim>> : tc \in 0..MaxTotal \cup {15, 100}, pg \in 1..MaxPage,
                     lim \in 1..MaxLimit \cup {DefaultLimit}}

InitPage ==
  /\ Inputs(0..MaxPortfolios, {<<>>}, {1}, {1}, {0}, {1}, MatchStages,
            {[skip |-> sk, limit |-> li] :
               sk \in 0..(MaxPage * DefaultLimit), li \in 1..DefaultLimit},
            Pagings)
  /\ options.skip = (page - 1) * limit
  /\ options.limit = limit

CreatePortfolioPipeline ==
  /\ phase = "start"
  /\ pipeline' = createPortfolioPipeline(matchStage, options)
  /\ phase' = "built"
  /\ UNCHANGED <<portfolios, likes, techstacks, jobgroups, matchStage,
                 options, docs, totalCount, page, limit, metadata>>

Aggregate ==
  /\ phase = "built"
  /\ docs' \in Outcomes(pipeline, portfolios)
  /\ phase' = "done"
  /\ UNCHANGED <<portfolios, likes, techstacks, jobgroups, matchStage,
                 options, pipeline, totalCount, page, limit, metadata>>

CreatePaginationMetadata ==
  /\ phase = "done"
  /\ metadata' = createPaginationMetadata(totalCount, page, limit)
  /\ phase' = "responded"
  /\ UNCHANGED <<portfolios, likes, techstacks, jobgroups, matchStage,
                 options, pipeline, docs, totalCount, page, limit>>

Next == CreatePortfolioPipeline \/ Aggregate \/ CreatePaginationMetadata

Spec == Init /\ [][Next]_vars

SpecRows == InitRows /\ [][Next]_vars

SpecSort == InitSort /\ [][Next]_vars

SpecBuild == InitBuild /\ [][Next]_vars

SpecPage == InitPage /\ [][Next]_vars

(* ======================= properties of the records ====================== *)
Done == phase \in {"done", "responded"}

\* the portfolios that pass the filter (a portfolio's _id is its position)
Passing == {i \in 1..Len(portfolios) : Matches(portfolios[i], matchStage)}

LikesOf(i) == Cardinality({k \in 1..Len(likes) : likes[k].portfolioID = i})

DefsOf(skill) == SelectSeq(techstacks, LAMBDA x : x.skill = skill)

RecordsOf(i) == {k \in 1..Len(docs) : docs[k]._id = i}

\* the options cut nothing from the sorted records
NoWindow ==
  /\ OptSkip(options) <= 0
  /\ (OptLimit(options) <= 0 \/ Len(portfolios) <= OptLimit(options))

\* C1: every portfolio that passes the filter yields a record whose likeCount
\* is present and equals the number of Like records that reference it,
\* whatever its skills and however many definitions they match.
C1_LikeCount ==
  Done /\ NoWindow =>
    /\ \A i \in Passing : RecordsOf(i) # {}
    /\ \A k \in 1..Len(docs) :
         Has(docs[k], "likeCount") /\ docs[k].likeCount = LikesOf(docs[k]._id)

\* a portfolio with two Likes and two skills, one of them matching two
\* definitions, in the output (and one with no Like at all)
C1_Witness ==
  /\ Done
  /\ \E k \in 1..Len(docs) :
       /\ docs[k].likeCount = 2
       /\ Len(portfolios[docs[k]._id].techStack) = 2
       /\ Len(docs[k].techStack) > 2
  /\ \E k \in 1..Len(docs) : docs[k].likeCount = 0

Resolved(i) ==
  Cardinality({p \in 1..Len(portfolios[i].techStack) :
                 DefsOf(portfolios[i].techStack[p]) # <<>>})

\* the rows portfolio i is expanded to: one per matched definition of each
\* skill name, one for a skill name that matches none, one when it has no skill
RECURSIVE Rows(_)
Rows(stack) ==
  IF stack = <<>> THEN 0
  ELSE (IF DefsOf(Head(stack)) = <<>> THEN 1 ELSE Len(DefsOf(Head(stack))))
       + Rows(Tail(stack))

RowsOf(i) ==
  IF portfolios[i].techStack = <<>> THEN 1 ELSE Rows(portfolios[i].techStack)

\* C3 as stated: the techStack sequence of a record has one entry per skill
\* name that resolves to a definition, and none for the others.
C3_Original ==
  Done => \A k \in 1..Len(docs) : Len(docs[k].techStack) = Resolved(docs[k]._id)

\* C3 amended: the techStack sequence has one entry per matched definition
\* of each skill name, one entry without fields for each skill name that
\* matches no definition, and a single entry without fields when the
\* portfolio has no skill; the entries with fields are the matched ones.
C3_Amended ==
  Done =>
    \A k \in 1..Len(docs) :
      /\ Len(docs[k].techStack) = RowsOf(docs[k]._id)
      /\ Cardinality({e \in 1..Len(docs[k].techStack) :
                        docs[k].techStack[e] # NoDoc})
           = Len(docs[k].techStack)
             - Cardinality({p \in 1..Len(portfolios[docs[k]._id].techStack) :
                              DefsOf(portfolios[docs[k]._id].techStack[p]) = <<>>})
             - (IF portfolios[docs[k]._id].techStack = <<>> THEN 1 ELSE 0)

\* a record of a portfolio with a matched and an unmatched skill, and a
\* record of a portfolio without skills whose techStack is one empty entry
C3_Witness ==
  /\ Done
  /\ \E k \in 1..Len(docs) :
       /\ portfolios[docs[k]._id].techStack = <<"go", "rust">>
       /\ Len(docs[k].techStack) > Resolved(docs[k]._id)
  /\ \E k \in 1..Len(docs) :
       /\ portfolios[docs[k]._id].techStack = <<>>
       /\ docs[k].techStack = <<NoDoc>>

\* the entry a skill name gives when it matches at most one definition
EntryOf(skill) ==
  IF DefsOf(skill) = <<>> THEN NoDoc ELSE Restrict(DefsOf(skill)[1], TechFields)

\* C4: when every skill name of a portfolio with skills matches at most one
\* definition, the techStack sequence has one entry per skill name, in the
\* order of the skill names: the fields of the matched definition, or no
\* field when the skill name matches none.
C4_EntryPerSkill ==
  Done =>
    \A k \in 1..Len(docs) :
      LET stack == portfolios[docs[k]._id].techStack
      IN  (stack # <<>> /\ \A p \in 1..Len(stack) : Len(DefsOf(stack[p])) <= 1)
            => docs[k].techStack = [p \in 1..Len(stack) |-> EntryOf(stack[p])]

\* skills <<"go", "rust">> with only "go" defined: two entries, the first
\* with the four fields, the second with none
C4_Witness ==
  /\ Done /\ Len(techstacks) = 1
  /\ \E k \in 1..Len(docs) :
       /\ portfolios[docs[k]._id].techStack = <<"go", "rust">>
       /\ Len(docs[k].techStack) = 2
       /\ DOMAIN docs[k].techStack[1] = TechFields
       /\ docs[k].techStack[1].skill = "go"
       /\ docs[k].techStack[2] = NoDoc

JobGroupDefs(ref) == SelectSeq(jobgroups, LAMBDA x : x._id = ref)

\* C9: the jobGroup field of a record is the job label of the definition
\* whose identifier is the portfolio's jobGroup reference, and no other field
\* of the definition is in the record; when no definition has that
\* identifier the record is still emitted, without a jobGroup field.
C9_JobGroupLabel ==
  Done /\ NoWindow =>
    /\ \A i \in Passing : RecordsOf(i) # {}
    /\ \A k \in 1..Len(docs) :
         LET found == JobGroupDefs(portfolios[docs[k]._id].jobGroup)
         IN  /\ DOMAIN docs[k] \subseteq
                  {"_id", "techStack", "likeCount", "jobGroup"} \cup ScalarFields
             /\ IF found = <<>> THEN ~Has(docs[k], "jobGroup")
                ELSE Has(docs[k], "jobGroup") /\ docs[k].jobGroup = found[1].job

\* a record with a resolved label and a record without a jobGroup field
C9_Witness ==
  /\ Done
  /\ \E k \in 1..Len(docs) :
       portfolios[docs[k]._id].jobGroup = 2 /\ ~Has(docs[k], "jobGroup")
  /\ \E k \in 1..Len(docs) :
       portfolios[docs[k]._id].jobGroup = 1 /\ docs[k].jobGroup = "Frontend"

(* ====================== properties of the pipeline ====================== *)
Built == phase # "start"

FixedOps ==
  <<"$match", "$lookup", "$addFields", "$unwind", "$lookup", "$unwind",
    "$group", "$lookup", "$unwind", "$project">>

OpAt(op) == {i \in 1..Len(pipeline) : pipeline[i].op = op}

\* C5: the pipeline is the 10 fixed stages, one sort stage, a skip stage if
\* and only if skip > 0 and a limit stage if and only if limit > 0, in that
\* order, so 11 + [skip > 0] + [limit > 0] stages; with options omitted it
\* ends with the createdAt-descending sort and a limit of 15.
C5_StageSequence ==
  Built =>
    LET skip == IF "skip" \in DOMAIN options THEN options.skip ELSE 0
        lim == IF "limit" \in DOMAIN options THEN options.limit ELSE 15
        n == Len(pipeline)
    IN  /\ n = 11 + (IF skip > 0 THEN 1 ELSE 0) + (IF lim > 0 THEN 1 ELSE 0)
        /\ \A i \in 1..10 : pipeline[i].op = FixedOps[i]
        /\ OpAt("$sort") = {11}
        /\ IF skip > 0 THEN pipeline[12] = [op |-> "$skip", n |-> skip]
                       ELSE OpAt("$skip") = {}
        /\ IF lim > 0 THEN pipeline[n] = [op |-> "$limit", n |-> lim]
                      ELSE OpAt("$limit") = {}
        /\ options = NoDoc =>
             /\ pipeline[11] = [op |-> "$sort", keys |-> <<"createdAt">>]
             /\ pipeline[12] = [op |-> "$limit", n |-> 15]
             /\ n = 12

\* the pipeline of a "popular" query with a skip and a limit: 13 stages
C5_Witness ==
  /\ Built
  /\ Len(pipeline) = 13
  /\ pipeline[12].op = "$skip" /\ pipeline[13].op = "$limit"
  /\ Has(options, "sort") /\ options.sort = "popular"

StagesWith(op, f, v) ==
  {i \in OpAt(op) : Has(pipeline[i], f) /\ pipeline[i][f] = v}

\* the stages of s come before the stages of t, and there is one of each
Before(s, t) == Cardinality(s) = 1 /\ \A i \in s, j \in t : i < j

\* C8: the stages are in the order of the steps: the filter first, with
\* matchStage as given; the likes join and likeCount before the tech-stack
\* expansion; expansion, resolution and resolution expansion before the
\* group; job-group resolution and projection after the group; the sort
\* after the projection; skip and limit, when present, after the sort.
C8_StageOrder ==
  Built =>
    /\ pipeline[1] = [op |-> "$match", query |-> matchStage]
    /\ OpAt("$match") = {1}
    /\ Before(StagesWith("$lookup", "from", "likes"),
              StagesWith("$addFields", "field", "likeCount"))
    /\ Before(StagesWith("$addFields", "field", "likeCount"),
              StagesWith("$unwind", "path", "techStack"))
    /\ Before(StagesWith("$unwind", "path", "techStack"),
              StagesWith("$lookup", "from", "techstacks"))
    /\ Before(StagesWith("$lookup", "from", "techstacks"),
              StagesWith("$unwind", "path", "techStackInfo"))
    /\ Before(StagesWith("$unwind", "path", "techStackInfo"), OpAt("$group"))
    /\ Before(OpAt("$group"), StagesWith("$lookup", "from", "jobgroups"))
    /\ Before(StagesWith("$lookup", "from", "jobgroups"),
              StagesWith("$unwind", "path", "jobGroupInfo"))
    /\ Before(StagesWith("$unwind", "path", "jobGroupInfo"), OpAt("$project"))
    /\ Before(OpAt("$project"), OpAt("$sort"))
    /\ Before(OpAt("$sort"), OpAt("$skip") \cup OpAt("$limit"))
    /\ \A i \in OpAt("$skip"), j \in OpAt("$limit") : i < j

\* a pipeline with a filter that is not empty and with skip and limit stages
C8_Witness ==
  /\ Built
  /\ matchStage # NoDoc
  /\ OpAt("$skip") # {} /\ OpAt("$limit") # {}
  /\ OpAt("$group") = {7}

\* C6: in the output of a "popular" pipeline a record with more likes
\* precedes one with fewer, and of two records with as many likes the one
\* created later precedes the other, for every skip and limit.
C6_PopularOrder ==
  Done /\ OptSort(options) = "popular" =>
    \A a, b \in 1..Len(docs) :
      /\ docs[a].likeCount > docs[b].likeCount => a < b
      /\ (docs[a].likeCount = docs[b].likeCount
            /\ docs[a].createdAt > docs[b].createdAt) => a < b

\* two records of a "popular" query under a limit of 2: the one with more
\* likes first, although it was created earlier
C6_Witness ==
  /\ Done /\ OptSort(options) = "popular"
  /\ OptLimit(options) = 2
  /\ Len(docs) = 2
  /\ docs[1].likeCount > docs[2].likeCount
  /\ docs[1].createdAt < docs[2].createdAt

(* ===================== properties of the page metadata ================== *)
Responded == phase = "responded"

\* the least number of pages of lim records that hold tc records
PagesFor(tc, lim) ==
  CHOOSE n \in 0..tc : n * lim >= tc /\ \A m \in 0..(n - 1) : m * lim < tc

\* C7: currentPage, totalCount and limit are the arguments, totalPages is
\* ceiling(totalCount / limit), hasNextPage is page < totalPages and
\* hasPrevPage is page > 1; (0,1,15), (100,3,15) and (15,1,15) give 0, 7 and
\* 1 pages with the flags of the examples.
C7_Metadata ==
  Responded =>
    /\ DOMAIN metadata = {"currentPage", "totalPages", "totalCount",
                          "hasNextPage", "hasPrevPage", "limit"}
    /\ metadata.currentPage = page
    /\ metadata.totalCount = totalCount
    /\ metadata.limit = limit
    /\ metadata.totalPages = PagesFor(totalCount, limit)
    /\ metadata.hasNextPage = (page < PagesFor(totalCount, limit))
    /\ metadata.hasPrevPage = (page > 1)
    /\ (totalCount = 0 /\ page = 1 /\ limit = 15) =>
         metadata = [currentPage |-> 1, totalPages |-> 0, totalCount |-> 0,
                     hasNextPage |-> FALSE, hasPrevPage |-> FALSE, limit |-> 15]
    /\ (totalCount = 100 /\ page = 3 /\ limit = 15) =>
         metadata = [currentPage |-> 3, totalPages |-> 7, totalCount |-> 100,
                     hasNextPage |-> TRUE, hasPrevPage |-> TRUE, limit |-> 15]
    /\ (totalCount = 15 /\ page = 1 /\ limit = 15) =>
         /\ metadata.totalPages = 1
         /\ ~metadata.hasNextPage /\ ~metadata.hasPrevPage

\* the metadata of the example (100, 3, 15)
C7_Witness ==
  /\ Responded
  /\ totalCount = 100 /\ page = 3 /\ limit = 15
  /\ metadata.totalPages = 7 /\ metadata.hasNextPage

\* the windows a listing of the next page can give: the pipeline of the same
\* filter and sort with skip = page * limit
NextWindows ==
  Outcomes(createPortfolioPipeline(matchStage,
             [sort |-> OptSort(options), skip |-> page * limit, limit |-> limit]),
           portfolios)

\* totalCount is the number of portfolios the filter lets through and the
\* listing was queried with the window of the page
CountedListing ==
  /\ totalCount = Cardinality(Passing)
  /\ OptSkip(options) = (page - 1) * limit
  /\ OptLimit(options) = limit

\* C10: hasNextPage is true exactly when page * limit < totalCount, that is
\* exactly when the window after the one of the page is not empty, and
\* totalPages is the least number of pages that cover totalCount records.
C10_NextPage ==
  Responded =>
    /\ metadata.hasNextPage = (page * limit < totalCount)
    /\ totalCount > 0 =>
         /\ (metadata.totalPages - 1) * limit < totalCount
         /\ totalCount <= metadata.totalPages * limit
    /\ CountedListing =>
         /\ Len(docs) = (IF totalCount - (page - 1) * limit < 0 THEN 0
                         ELSE IF totalCount - (page - 1) * limit < limit
                                THEN totalCount - (page - 1) * limit
                                ELSE limit)
         /\ \A w \in NextWindows : (w # <<>>) = metadata.hasNextPage

\* the first page of one record out of two, followed by a window of one
C10_Witness ==
  /\ Responded /\ CountedListing
  /\ totalCount = 2 /\ limit = 1
  /\ page = 1 /\ metadata.hasNextPage /\ Len(docs) = 1
  /\ \E w \in NextWindows : Len(w) = 1

=============================================================================
